---- MODULE Spec2Model ----
(***************************************************************************)
(* addr-alloc (addr_alloc.go): VPN address allocation over a bolt store.   *)
(*                                                                         *)
(* The state is the bolt file (does the "addresses" bucket exist, and the  *)
(* records device -> 4-byte address in it), the Handler's in-memory cursor *)
(* h.next, and one record per HTTP handler goroutine holding its position  *)
(* in ServeHTTP / ServeGet / ServeAll and its local variables.             *)
(*                                                                         *)
(* An address is a tuple of four bytes; Go's a[0]..a[3] are a[1]..a[4].    *)
(* A nil slice is the empty tuple.                                         *)
(***************************************************************************)
EXTENDS Integers, Sequences, FiniteSets, TLC

\* ------------------------------------------------------------- bounds

\* Handler goroutines that can be in flight at once (net/http starts one
\* per connection).
NProcs == 2

\* Process restarts (crash or exit followed by a new run of main) in a run.
MaxRestarts == 1

\* Requests dispatched by ServeHTTP in a run with requests in flight
\* together, and in a run with one request at a time.
MaxRequests == 2
MaxSeqRequests == 5

\* Successive calls of nextIP on one address, in the runs of nextIP alone.
MaxApply == 2

\* ---------------------------------------------------------- constants

\* A byte holds 0 .. ByteMod-1; Go's a[i]++ on a byte wraps at ByteMod.
ByteMod == 256

\* var ini: first IP address to allocate.
ini == <<10, 8, 0, 2>>

\* var fin: last IP address; an attempt to allocate it fails.
fin == <<10, 92, 255, 255>>

StatusOK == 200
StatusNotFound == 404
StatusInternalServerError == 500
\* No response was written: the handler goroutine panicked and net/http
\* dropped the connection.
NoStatus == 0

Procs == 1 .. NProcs

\* The keys of the store in bolt's cursor order (bytewise ascending).
KeySeq == <<"a", "b", "c", "old">>

\* Device names a request path /get/<device> can carry; "" is /get/ itself.
Devices == {"", "a", "b", "c", "old"}

\* ------------------------------------------------------ pure functions

\* bytes.Compare on two byte strings: -1, 0 or 1, lexicographic.
RECURSIVE bytesCompare(_, _)
bytesCompare(a, b) ==
    IF a = <<>> /\ b = <<>> THEN 0
    ELSE IF a = <<>> THEN -1
    ELSE IF b = <<>> THEN 1
    ELSE IF Head(a) < Head(b) THEN -1
    ELSE IF Head(a) > Head(b) THEN 1
    ELSE bytesCompare(Tail(a), Tail(b))

\* a[i]++ on byte i of a (Go index i, tuple index i+1).  (incByteSkip is
\* a faulty variant, stepping by two.)
incByteSkip(a, i) == [a EXCEPT ![i + 1] = (@ + 2) % ByteMod]
incByte(a, i) == [a EXCEPT ![i + 1] = (@ + 1) % ByteMod]

\* nextIP: from an IP address, calculate the 'next' one.  (nextIPNoCarry
\* is a faulty variant that stops after the lowest byte.)
nextIPNoCarry(a) == incByte(a, 3)
nextIP(a) ==
    LET a3 == incByte(a, 3) IN
    IF a3[4] # 0 THEN a3
    ELSE LET a2 == incByte(a3, 2) IN
         IF a2[3] # 0 THEN a2
         ELSE LET a1 == incByte(a2, 1) IN
              IF a1[2] # 0 THEN a1
              ELSE incByte(a1, 0)

\* net.IP.String() of a 4-byte address: dotted decimal; "<nil>" for nil.
IPString(a) ==
    IF a = <<>> THEN "<nil>"
    ELSE ToString(a[1]) \o "." \o ToString(a[2]) \o "."
         \o ToString(a[3]) \o "." \o ToString(a[4])

\* The address as a big-endian 32-bit integer.
ipInt(a) ==
    ((a[1] * ByteMod + a[2]) * ByteMod + a[3]) * ByteMod + a[4]

\* The empty bucket.
NoRecords == [k \in {} |-> ini]

\* b.Get(key): the stored value, nil when the key is absent.  (GetMissing
\* is a faulty variant that finds nothing.)
GetMissing(store, key) == <<>>
Get(store, key) == IF key \in DOMAIN store THEN store[key] ELSE <<>>

\* b.Put(key, value): the bucket with the key set to the value.  (PutLost
\* is a faulty variant that stores nothing.)
PutLost(store, key, value) == store
Put(store, key, value) ==
    [k \in DOMAIN store \cup {key} |-> IF k = key THEN value ELSE store[k]]

\* db.Update(fn): the records after the transaction, which commits what fn
\* wrote or, on an error, rolls it back.  (UpdateNoRollback is a faulty
\* variant that keeps what a failed transaction wrote.)
UpdateNoRollback(store, ok, written) == written
Update(store, ok, written) == IF ok THEN written ELSE store

\* ServeGet: have we run out of addresses?  (exhaustedPast is a faulty
\* variant that tests for a cursor beyond fin.)
exhaustedPast(nxt) == bytesCompare(nxt, fin) > 0
exhausted(nxt) == bytesCompare(nxt, fin) = 0

\* main: is the record's address a higher one than the last seen?
\* (higherStrict is a faulty variant with > for >=.)
higherStrict(ip, nxt) == bytesCompare(ip, nxt) > 0
higher(ip, nxt) == bytesCompare(ip, nxt) >= 0

\* The recovery scan of main: starting from next = ini, visit the records
\* in cursor order; a record at or above next moves next to its successor.
RECURSIVE scanFrom(_, _, _)
scanFrom(store, i, nxt) ==
    IF i > Len(KeySeq) THEN nxt
    ELSE IF KeySeq[i] \notin DOMAIN store THEN scanFrom(store, i + 1, nxt)
    ELSE LET ip == store[KeySeq[i]] IN
         IF higher(ip, nxt)
         THEN scanFrom(store, i + 1, nextIP(ip))
         ELSE scanFrom(store, i + 1, nxt)

\* (scanForget is a faulty variant that leaves the cursor at ini.)
scanForget(store) == ini
scan(store) == scanFrom(store, 1, ini)

\* json.Marshal of a map[string]string: keys in sorted order.
RECURSIVE jsonFrom(_, _, _)
jsonFrom(m, i, sep) ==
    IF i > Len(KeySeq) THEN ""
    ELSE IF KeySeq[i] \notin DOMAIN m THEN jsonFrom(m, i + 1, sep)
    ELSE sep \o "\"" \o KeySeq[i] \o "\":\"" \o m[KeySeq[i]] \o "\""
         \o jsonFrom(m, i + 1, ",")

jsonMarshal(m) == "{" \o jsonFrom(m, 1, "") \o "}"

\* The loop of ServeAll: every key of the bucket with its address as text.
\* (allMappingsSkipFirst is a faulty variant that starts at c.Next().)
allMappingsSkipFirst(store) ==
    [k \in {x \in DOMAIN store : \E y \in DOMAIN store :
                \E i, j \in 1 .. Len(KeySeq) :
                    KeySeq[i] = y /\ KeySeq[j] = x /\ i < j}
        |-> IPString(store[k])]
allMappings(store) == [k \in DOMAIN store |-> IPString(store[k])]

\* -------------------------------------------------------------- state

VARIABLES
    bucket,     \* the "addresses" bucket exists in the bolt file
    db,         \* the committed records of the bucket: device -> address
    next,       \* h.next, the cursor; <<>> while no process runs
    phase,      \* "down": no process yet, or it died; "exited": main ended
                \* in log.Fatal; "serving": main reached ListenAndServeTLS
    recovered,  \* history: the recovery transaction of this process committed
    req,        \* per handler goroutine: position and locals
    resp,       \* the response the last step wrote, NoResponse if none
    granted,    \* history: per device, the address texts answered with 200
    allocs,     \* history: the addresses stored by committed writes, in order
    store0,     \* history: the records the run started from
    restarts,   \* crashes so far
    nreq        \* requests dispatched so far

vars ==
    <<bucket, db, next, phase, recovered, req, resp, granted, allocs, store0,
      restarts, nreq>>

\* A goroutine with no request.
Idle ==
    [pc |-> "idle", route |-> "", device |-> "", found |-> FALSE,
     addr |-> "", byte |-> 0, tmp |-> 0, mappings |-> NoRecords,
     window |-> {}]

\* No response written.
NoResponse ==
    [route |-> "", device |-> "", status |-> NoStatus, body |-> "",
     fresh |-> FALSE, window |-> {}]

\* The request paths ServeHTTP tells apart.
Paths ==
    {[route |-> "all", device |-> ""], [route |-> "other", device |-> ""]}
    \cup {[route |-> "get", device |-> d] : d \in Devices}

\* The store files a run can start from: a fresh file, or the file an
\* earlier run left.  Of the earlier run's records only the highest is
\* kept (device "old"); the cursor is just below a three-byte carry, or one
\* address short of fin.
SeedStores ==
    { [bucket |-> FALSE, db |-> NoRecords],
      [bucket |-> TRUE, db |-> [k \in {"old"} |-> <<10, 8, 255, 254>>]],
      [bucket |-> TRUE, db |-> [k \in {"old"} |-> <<10, 92, 255, 253>>]] }

Init ==
    /\ \E s \in SeedStores :
          /\ bucket = s.bucket
          /\ db = s.db
          /\ store0 = s.db
    /\ next = <<>>
    /\ phase = "down"
    /\ recovered = FALSE
    /\ req = [p \in Procs |-> Idle]
    /\ resp = NoResponse
    /\ granted = [d \in Devices |-> {}]
    /\ allocs = <<>>
    /\ restarts = 0
    /\ nreq = 0

Free(p) == req[p].pc = "idle"

\* w.WriteHeader(status); io.WriteString(w, body) for the request r.  fresh
\* tells that the request stored a record; window is the history of a
\* ServeAll call.  A panic leaves NoStatus: net/http drops the connection.
Response(r, status, body) ==
    [route |-> r.route, device |-> r.device, status |-> status,
     body |-> body, fresh |-> (r.pc = "carry"), window |-> r.window]

\* A store change, as seen by the ServeAll calls in flight (history only).
Witnessed(r, store) ==
    IF r.route = "all"
    THEN [r EXCEPT !.window = @ \cup {store}]
    ELSE r

\* ------------------------------------------------------------- actions

\* main, from bolt.Open to ListenAndServeTLS.  bolt.Open failing ends the
\* process in log.Fatal (opened = FALSE) with nothing changed.  Otherwise
\* handler.next = ini, then the recovery scan inside one db.Update, in which
\* CreateBucketIfNotExists creates the bucket (it has no way to fail for the
\* fixed name "addresses" in a writable transaction).  The result of
\* db.Update is not looked at: a failed commit (ok = FALSE) loses the new
\* bucket and the server starts all the same, with the cursor the scan
\* computed.  (handler.next = ini shares ini's bytes until the scan replaces
\* the slice; ini is not read again by the process.)
Main ==
    /\ phase \in {"down", "exited"}
    /\ \E opened, ok \in BOOLEAN :
          IF opened
          THEN /\ bucket' = (bucket \/ ok)
               /\ recovered' = ok
               /\ next' = scan(db)
               /\ phase' = "serving"
          ELSE /\ phase' = "exited"
               /\ UNCHANGED <<bucket, recovered, next>>
    /\ resp' = NoResponse
    /\ UNCHANGED <<db, req, granted, allocs, store0, restarts, nreq>>

\* The process dies (a crash, a kill, the machine stops) at any point: the
\* cursor and every request in flight are lost, the committed records stay.
Crash ==
    /\ phase = "serving"
    /\ restarts < MaxRestarts
    /\ restarts' = restarts + 1
    /\ phase' = "down"
    /\ recovered' = FALSE
    /\ next' = <<>>
    /\ req' = [p \in Procs |-> Idle]
    /\ resp' = NoResponse
    /\ UNCHANGED <<bucket, db, granted, allocs, store0, nreq>>

\* ServeHTTP: route the request; any other path is answered 404 at once.
ServeHTTP(p, path) ==
    /\ phase = "serving"
    /\ Free(p)
    /\ UNCHANGED recovered
    /\ nreq' = nreq + 1
    /\ IF path.route = "all"
       THEN /\ req' = [req EXCEPT ![p] =
                  [Idle EXCEPT !.pc = "all", !.route = "all",
                               !.window = {db}]]
            /\ resp' = NoResponse
       ELSE IF path.route = "get"
       THEN /\ req' = [req EXCEPT ![p] =
                  [Idle EXCEPT !.pc = "lookup", !.route = "get",
                               !.device = path.device]]
            /\ resp' = NoResponse
       ELSE /\ resp' = Response([Idle EXCEPT !.route = "other"],
                                StatusNotFound, "Not found.")
            /\ UNCHANGED req
    /\ UNCHANGED <<bucket, db, next, phase, granted, allocs, store0, restarts>>

\* ServeGet, the first db.Update and the test of its result: is the device
\* in the bucket already?  With no bucket, b is nil and b.Get panics.  A
\* failed transaction (ok = FALSE) is answered 500.
Lookup(p) ==
    /\ req[p].pc = "lookup"
    /\ UNCHANGED recovered
    /\ IF ~bucket
       THEN /\ resp' = Response(req[p], NoStatus, "")
            /\ req' = [req EXCEPT ![p] = Idle]
       ELSE \E ok \in BOOLEAN :
               LET v == Get(db, req[p].device) IN
               IF ok
               THEN /\ req' = [req EXCEPT ![p] =
                          IF v # <<>>
                          THEN [@ EXCEPT !.addr = IPString(v),
                                         !.found = TRUE, !.pc = "check"]
                          ELSE [@ EXCEPT !.pc = "check"]]
                    /\ resp' = NoResponse
               ELSE /\ resp' = Response(req[p], StatusInternalServerError,
                                        "Database lookup failed.")
                    /\ req' = [req EXCEPT ![p] = Idle]
    /\ UNCHANGED <<bucket, db, next, phase, granted, allocs, store0,
                   restarts, nreq>>

\* ServeGet: a found device is answered with its address; for a new one,
\* the cursor is compared with fin.
Check(p) ==
    /\ req[p].pc = "check"
    /\ UNCHANGED recovered
    /\ IF req[p].found
       THEN /\ resp' = Response(req[p], StatusOK, req[p].addr)
            /\ req' = [req EXCEPT ![p] = Idle]
            /\ granted' = [granted EXCEPT ![req[p].device] =
                              @ \cup {req[p].addr}]
       ELSE IF exhausted(next)
       THEN /\ resp' = Response(req[p], StatusInternalServerError,
                                "Ran out of IP addresses.")
            /\ req' = [req EXCEPT ![p] = Idle]
            /\ UNCHANGED granted
       ELSE /\ req' = [req EXCEPT ![p] = [@ EXCEPT !.pc = "alloc"]]
            /\ resp' = NoResponse
            /\ UNCHANGED granted
    /\ UNCHANGED <<bucket, db, next, phase, allocs, store0, restarts, nreq>>

\* ServeGet: addr = h.next.String().
Alloc(p) ==
    /\ req[p].pc = "alloc"
    /\ UNCHANGED recovered
    /\ req' = [req EXCEPT ![p] = [@ EXCEPT !.addr = IPString(next),
                                           !.pc = "write"]]
    /\ resp' = NoResponse
    /\ UNCHANGED <<bucket, db, next, phase, granted, allocs, store0,
                   restarts, nreq>>

\* ServeGet, the second db.Update: b.Put(device, h.next) and the test of the
\* result.  Put keeps the slice h.next, whose bytes are copied out at
\* commit.  Put refuses an empty key; a failed transaction is rolled back.
\* Both are answered 500, and nextIP is not reached.
Write(p) ==
    /\ req[p].pc = "write"
    /\ UNCHANGED recovered
    /\ IF ~bucket
       THEN /\ resp' = Response(req[p], NoStatus, "")
            /\ req' = [req EXCEPT ![p] = Idle]
            /\ UNCHANGED <<db, allocs>>
       ELSE \E ok \in BOOLEAN :
               IF ok /\ req[p].device # ""
               THEN /\ db' = Update(db, TRUE, Put(db, req[p].device, next))
                    /\ allocs' = Append(allocs, next)
                    /\ req' = [q \in Procs |->
                          IF q = p
                          THEN [req[p] EXCEPT !.pc = "load", !.byte = 3]
                          ELSE Witnessed(req[q], db')]
                    /\ resp' = NoResponse
               ELSE /\ db' = Update(db, FALSE,
                                  IF req[p].device # ""
                                  THEN Put(db, req[p].device, next)
                                  ELSE db)
                    /\ resp' = Response(req[p], StatusInternalServerError,
                                        "Database write failed.")
                    /\ req' = [req EXCEPT ![p] = Idle]
                    /\ UNCHANGED allocs
    /\ UNCHANGED <<bucket, next, phase, granted, store0, restarts, nreq>>

\* nextIP(h.next), one byte at a time, on the slice every goroutine shares.
\* Nothing orders it with the other goroutines' accesses to h.next (the test
\* against fin, String(), the copy at commit, their own nextIP): those see
\* the cursor between two byte steps, each taking the four bytes as they are
\* at one instant.  a[i]++ is a load, an add and a store, and another
\* goroutine's store may fall between the load and the store.
\*
\* nextIP, a[i]++: the load.
NextIPLoad(p) ==
    /\ req[p].pc = "load"
    /\ UNCHANGED recovered
    /\ req' = [req EXCEPT ![p] = [@ EXCEPT !.tmp = next[req[p].byte + 1],
                                           !.pc = "inc"]]
    /\ resp' = NoResponse
    /\ UNCHANGED <<bucket, db, next, phase, granted, allocs, store0,
                   restarts, nreq>>

\* nextIP, a[i]++: the add and the store; the new value stays in a register.
NextIPInc(p) ==
    /\ req[p].pc = "inc"
    /\ UNCHANGED recovered
    /\ LET i == req[p].byte
           v == incByte([next EXCEPT ![i + 1] = req[p].tmp], i)[i + 1]
       IN  /\ next' = [next EXCEPT ![i + 1] = v]
           /\ req' = [req EXCEPT ![p] = [@ EXCEPT !.tmp = v, !.pc = "carry"]]
    /\ resp' = NoResponse
    /\ UNCHANGED <<bucket, db, phase, granted, allocs, store0, restarts, nreq>>

\* nextIP: if a[i] == 0 { a[i] = 0; go on with the byte above } (a[0] has
\* none); otherwise nextIP returns and ServeGet answers 200 with addr.  The
\* test is on the byte in memory or on the value still in the register
\* (reload), and the store of 0 is done or dropped as dead (store): the
\* compiler's choice.
NextIPCarry(p) ==
    /\ req[p].pc = "carry"
    /\ UNCHANGED recovered
    /\ \E reload, store \in BOOLEAN :
          LET i == req[p].byte
              v == IF reload THEN next[i + 1] ELSE req[p].tmp
          IN  IF i > 0 /\ v = 0
              THEN /\ next' = IF store THEN [next EXCEPT ![i + 1] = 0]
                              ELSE next
                   /\ req' = [req EXCEPT ![p] = [@ EXCEPT !.pc = "load",
                                                         !.byte = @ - 1]]
                   /\ resp' = NoResponse
                   /\ UNCHANGED granted
              ELSE /\ resp' = Response(req[p], StatusOK, req[p].addr)
                   /\ req' = [req EXCEPT ![p] = Idle]
                   /\ granted' = [granted EXCEPT ![req[p].device] =
                                     @ \cup {req[p].addr}]
                   /\ UNCHANGED next
    /\ UNCHANGED <<bucket, db, phase, allocs, store0, restarts, nreq>>

\* ServeAll, the db.Update: CreateBucketIfNotExists, then the loop over all
\* keys.  The result of db.Update is not looked at: after a failed commit
\* (ok = FALSE) the mappings read are still answered.
AllTx(p) ==
    /\ req[p].pc = "all"
    /\ UNCHANGED recovered
    /\ \E ok \in BOOLEAN :
          bucket' = (bucket \/ ok)
    /\ req' = [req EXCEPT ![p] = [@ EXCEPT !.mappings = allMappings(db),
                                           !.pc = "marshal"]]
    /\ resp' = NoResponse
    /\ UNCHANGED <<db, next, phase, granted, allocs, store0, restarts, nreq>>

\* ServeAll: json.Marshal(mappings), answered 200 (Marshal cannot fail on a
\* map of strings).
AllRespond(p) ==
    /\ req[p].pc = "marshal"
    /\ UNCHANGED recovered
    /\ resp' = Response(req[p], StatusOK, jsonMarshal(req[p].mappings))
    /\ req' = [req EXCEPT ![p] = Idle]
    /\ UNCHANGED <<bucket, db, next, phase, granted, allocs, store0,
                   restarts, nreq>>

\* A step of a request already dispatched.
Step(p) ==
    \/ Lookup(p)
    \/ Check(p)
    \/ Alloc(p)
    \/ Write(p)
    \/ NextIPLoad(p)
    \/ NextIPInc(p)
    \/ NextIPCarry(p)
    \/ AllTx(p)
    \/ AllRespond(p)

\* net/http runs every request in a goroutine of its own: any interleaving.
Next ==
    \/ Main
    \/ \E p \in Procs, path \in Paths :
          nreq < MaxRequests /\ ServeHTTP(p, path)
    \/ \E p \in Procs : Step(p)

Spec == Init /\ [][Next]_vars

\* Requests handled one at a time: a request is dispatched only when no
\* other is in progress.  The process may die at any step and be started
\* again.
Serial == \A q \in Procs : Free(q)

SeqNext ==
    \/ Main
    \/ Crash
    \/ \E p \in Procs, path \in Paths :
          Serial /\ nreq < MaxSeqRequests /\ ServeHTTP(p, path)
    \/ \E p \in Procs : Step(p)

SeqSpec == Init /\ [][SeqNext]_vars

\* The recovery scan on its own: the store file holds any records with
\* addresses in [ini, fin), under any keys; main runs, the process dies, main
\* runs again.
AddrSamples ==
    { <<10, 8, 0, 2>>, <<10, 8, 0, 3>>, <<10, 8, 0, 255>>,
      <<10, 8, 255, 255>>, <<10, 92, 255, 254>> }

RecInit ==
    /\ bucket \in BOOLEAN
    /\ \E keys \in SUBSET {KeySeq[i] : i \in 1 .. Len(KeySeq)} :
          /\ bucket \/ keys = {}
          /\ db \in [keys -> AddrSamples]
    /\ store0 = db
    /\ next = <<>>
    /\ phase = "down"
    /\ recovered = FALSE
    /\ req = [p \in Procs |-> Idle]
    /\ resp = NoResponse
    /\ granted = [d \in Devices |-> {}]
    /\ allocs = <<>>
    /\ restarts = 0
    /\ nreq = 0

RecNext ==
    \/ Main
    \/ Crash

RecSpec == RecInit /\ [][RecNext]_vars

\* nextIP on its own: any 4-byte address with bytes among the samples is
\* handed to nextIP, which advances it in place, MaxApply times in a row.
\* allocs holds the addresses nextIP was called on.
ByteSamples == {0, 8, 10, 254, 255}

NextIPInit ==
    /\ next \in [1 .. 4 -> ByteSamples]
    /\ allocs = <<>>
    /\ bucket = FALSE
    /\ db = NoRecords
    /\ store0 = NoRecords
    /\ phase = "down"
    /\ recovered = FALSE
    /\ req = [p \in Procs |-> Idle]
    /\ resp = NoResponse
    /\ granted = [d \in Devices |-> {}]
    /\ restarts = 0
    /\ nreq = 0

NextIPApply ==
    /\ Len(allocs) < MaxApply
    /\ allocs' = Append(allocs, next)
    /\ next' = nextIP(next)
    /\ UNCHANGED <<bucket, db, phase, recovered, req, resp, granted, store0,
                   restarts, nreq>>

NextIPNext == NextIPApply

NextIPSpec == NextIPInit /\ [][NextIPNext]_vars

\* ------------------------------------------------------------- claims

\* The addresses of the records of a store.
Recorded(store) == {store[k] : k \in DOMAIN store}

\* The highest recorded address, as a 32-bit integer.
MaxRecorded(store) ==
    CHOOSE m \in {ipInt(a) : a \in Recorded(store)} :
        \A a \in Recorded(store) : ipInt(a) <= m

\* C1: with requests handled one at a time and restarts allowed, every
\* successful resolve of a device answers the same address: no device is
\* ever answered two different addresses.
C1_SameAddressEveryTime ==
    \A d \in Devices : Cardinality(granted[d]) <= 1

\* A device allocated in this run is answered from its record after a
\* restart.
C1_Witness ==
    /\ restarts > 0
    /\ resp.route = "get"
    /\ resp.status = StatusOK
    /\ ~resp.fresh
    /\ resp.device \in DOMAIN db \ DOMAIN store0
    /\ granted[resp.device] = {resp.body}

\* C2: with requests handled one at a time and the process dying at any
\* step of a resolve and recovering, no two devices have records holding
\* the same address.
C2_NoSharedAddress ==
    \A d1, d2 \in DOMAIN db : d1 # d2 => db[d1] # db[d2]

\* Two requests were dispatched and both stored a record, but at most one
\* was answered: the other died after its commit, and recovery ran before
\* the second allocation.
C2_Witness ==
    /\ restarts > 0
    /\ nreq = 2
    /\ Len(allocs) = 2
    /\ Cardinality({d \in Devices : granted[d] # {}}) <= 1
    /\ Cardinality(DOMAIN db \ DOMAIN store0) = 2

\* C3: under any interleaving, two resolves for two different unseen
\* devices never receive the same address and never leave two records
\* with the same address.
C3_DistinctUnderConcurrency ==
    \A d1, d2 \in Devices :
        d1 # d2 =>
            /\ granted[d1] \cap granted[d2] = {}
            /\ (d1 \in DOMAIN db /\ d2 \in DOMAIN db) => db[d1] # db[d2]

\* C4: under any interleaving, a committed record is never overwritten with
\* a different address and never removed.
C4_RecordNeverChanges ==
    [][\A d \in DOMAIN db : d \in DOMAIN db' /\ db'[d] = db[d]]_vars

\* The answer "pool exhausted" to the request r.
ExhaustedResponse(r) ==
    [route |-> "get", device |-> r.device,
     status |-> StatusInternalServerError,
     body |-> "Ran out of IP addresses.", fresh |-> FALSE, window |-> {}]

\* C5: with requests handled one at a time, while a resolve for a device
\* with no record runs with the cursor at fin, no record is written and the
\* cursor stays; it never gets past the test of the cursor, where it is
\* answered 500 "pool exhausted" (a failed lookup transaction is answered
\* 500 before that).
C5_ExhaustedRefused ==
    [][\A p \in Procs :
          (/\ req[p].route = "get"
           /\ req[p].device \notin DOMAIN db
           /\ next = fin
           /\ phase' = "serving")
          => /\ db' = db
             /\ next' = next
             /\ req'[p].pc \in {"check", "idle"}
             /\ req[p].pc = "check"
                   => /\ resp' = ExhaustedResponse(req[p])
                      /\ req'[p] = Idle]_vars

\* A new device was refused with the cursor at fin.
C5_Witness ==
    /\ resp.status = StatusInternalServerError
    /\ resp.body = "Ran out of IP addresses."
    /\ resp.device \notin DOMAIN db
    /\ next = fin

\* C6: with requests handled one at a time and the cursor at fin, a resolve
\* for a device that has a record is answered 200 with the recorded address
\* (unless its lookup transaction fails); "pool exhausted" is only ever
\* answered for a device without a record.
C6_ExistingServedWhenExhausted ==
    [][/\ \A p \in Procs :
             (/\ req[p].route = "get"
              /\ req[p].device \in DOMAIN db
              /\ next = fin
              /\ phase' = "serving")
             => /\ db' = db
                /\ next' = next
                /\ req[p].pc = "lookup" /\ req'[p] # Idle
                      => req'[p].pc = "check" /\ req'[p].found
                /\ req'[p] = Idle
                      => \/ /\ resp'.status = StatusOK
                            /\ resp'.body = IPString(db[req[p].device])
                         \/ /\ req[p].pc = "lookup"
                            /\ resp'.status = StatusInternalServerError
                            /\ resp'.body = "Database lookup failed."
       /\ resp'.body = "Ran out of IP addresses."
             => resp'.device \notin DOMAIN db']_vars

\* A device with a record was answered its address with the cursor at fin.
C6_Witness ==
    /\ next = fin
    /\ resp.route = "get"
    /\ resp.status = StatusOK
    /\ ~resp.fresh
    /\ resp.device \in DOMAIN db
    /\ resp.body = IPString(db[resp.device])

\* C7: when the lookup or the write transaction of a resolve fails, the
\* request is answered 500, and that step changes neither the records nor
\* the cursor.  (With the bucket in place, a resolve leaves its lookup or
\* its write without going on only through a failed transaction.)
C7_StorageFailureChangesNothing ==
    [][\A p \in Procs :
          (/\ bucket
           /\ req[p].pc \in {"lookup", "write"}
           /\ req'[p] = Idle
           /\ phase' = "serving")
          => /\ resp'.status = StatusInternalServerError
             /\ resp'.body = IF req[p].pc = "lookup"
                             THEN "Database lookup failed."
                             ELSE "Database write failed."
             /\ resp'.device = req[p].device
             /\ db' = db
             /\ next' = next]_vars

\* A write transaction failed although the lookup had succeeded.
C7_Witness ==
    /\ resp.status = StatusInternalServerError
    /\ resp.body = "Database write failed."
    /\ resp.device # ""
    /\ resp.device \notin DOMAIN db

\* C8: after recovery over any records with addresses in [ini, fin), in
\* whatever order of keys, the cursor is the successor of the highest
\* recorded address; over no records it is ini.
C8_RecoveredCursor ==
    phase = "serving" =>
        /\ Len(next) = 4
        /\ ipInt(next) = IF DOMAIN db = {} THEN ipInt(ini)
                         ELSE MaxRecorded(db) + 1

\* Recovery ran over three records whose key order is not their address
\* order, the highest under the first key.
C8_Witness ==
    /\ phase = "serving"
    /\ {"a", "b", "c"} \subseteq DOMAIN db
    /\ ipInt(db["a"]) > ipInt(db["c"])
    /\ ipInt(db["c"]) > ipInt(db["b"])
    /\ ipInt(next) = ipInt(db["a"]) + 1

\* C9: from empty storage, with requests handled one at a time, the k-th
\* address stored is ini + (k - 1) as a 32-bit integer, and a resolve that
\* stored a record answers the address it stored.
C9_FreshAddressesAscend ==
    store0 = NoRecords =>
        /\ \A k \in 1 .. Len(allocs) :
              ipInt(allocs[k]) = ipInt(ini) + (k - 1)
        /\ (resp.fresh /\ resp.status = StatusOK)
              => resp.body = IPString(allocs[Len(allocs)])

\* The third new device of a run from empty storage was answered.
C9_Witness ==
    /\ store0 = NoRecords
    /\ Len(allocs) = 3
    /\ resp.fresh
    /\ resp.status = StatusOK
    /\ resp.body = "10.8.0.4"

\* The text of a store as ServeAll answers it.
SnapshotText(store) ==
    jsonMarshal([k \in DOMAIN store |-> IPString(store[k])])

\* C10: under any interleaving, the mapping ServeAll answers is the set of
\* committed records as it stood at one point between the dispatch of the
\* call and its answer.
C10_ListIsSnapshot ==
    (resp.route = "all" /\ resp.status = StatusOK)
        => \E store \in resp.window : resp.body = SnapshotText(store)

\* ServeAll answered while a resolve committed a record during the call.
C10_Witness ==
    /\ resp.route = "all"
    /\ resp.status = StatusOK
    /\ Cardinality(resp.window) >= 2
    /\ resp.body = SnapshotText(db)

\* C11: if the startup recovery transaction fails, the process ends and
\* never serves a request: a request is in progress only in a process whose
\* recovery transaction committed.
C11_FailedRecoveryNeverServes ==
    \A p \in Procs : ~Free(p) => recovered


\* C12: from an empty store, once N concurrent first-time resolves for N
\* distinct devices have all completed with success, the cursor is the first
\* address advanced by exactly N successor steps.
C12_CursorAdvancedOncePerResolve ==
    (/\ store0 = NoRecords
     /\ phase = "serving"
     /\ \A p \in Procs : Free(p)
     /\ Cardinality(DOMAIN db) = Len(allocs))
        => ipInt(next) = ipInt(ini) + Len(allocs)


\* C13: with new devices resolved one at a time, the pool is the addresses
\* from the first free one up to, not including, fin.  fin is never stored;
\* between requests the cursor is the first free address of the initial
\* store advanced once per record stored; and when "pool exhausted" is
\* answered, the cursor is fin, the address just below fin is recorded and
\* the number of records stored is fin minus the first free address (fin -
\* ini from empty storage).
C13_PoolEndsBelowFin ==
    /\ \A k \in 1 .. Len(allocs) : bytesCompare(allocs[k], fin) < 0
    /\ (Serial /\ phase = "serving")
          => ipInt(next) = ipInt(scan(store0)) + Len(allocs)
    /\ (resp.status = StatusInternalServerError
        /\ resp.body = "Ran out of IP addresses.")
          => /\ next = fin
             /\ ipInt(fin) - 1 \in {ipInt(a) : a \in Recorded(db)}
             /\ Len(allocs) = ipInt(fin) - ipInt(scan(store0))

\* The address just below fin was stored in this run, and the next new
\* device was refused.
C13_Witness ==
    /\ resp.status = StatusInternalServerError
    /\ resp.body = "Ran out of IP addresses."
    /\ Len(allocs) = 1
    /\ allocs[1] = <<10, 92, 255, 254>>
    /\ resp.device \notin DOMAIN db


\* C14: in every reachable state, under any interleaving of concurrent
\* resolves, the address of every record lies in [ini, fin).
C14_RecordsInPool ==
    \A a \in Recorded(db) :
        bytesCompare(a, ini) >= 0 /\ bytesCompare(a, fin) < 0


\* C15: under any interleaving, a resolve that creates a record and answers
\* 200 answers the address it stored.  The text it answers is addr, fixed
\* before its write transaction; so whenever a resolve commits its record,
\* the address in the record reads as the text the resolve goes on to answer.
C15_AnswerIsStoredAddress ==
    [][\A p \in Procs :
          (req[p].pc = "write" /\ req'[p].pc = "load")
             => IPString(db'[req[p].device]) = req'[p].addr]_vars


\* C16: with requests handled one at a time, whenever no request is in
\* progress the cursor is what the recovery scan computes from the records
\* as they are (ini when there are none, otherwise the successor of the
\* highest recorded address): a restart leaves the cursor unchanged, and
\* every recorded address is strictly below the cursor.
C16_CursorIsRecoveryOfRecords ==
    (Serial /\ phase = "serving")
        => /\ next = scan(db)
           /\ ipInt(next) = IF DOMAIN db = {} THEN ipInt(ini)
                            ELSE MaxRecorded(db) + 1
           /\ \A a \in Recorded(db) : ipInt(a) < ipInt(next)

\* A new device was answered the address before a carry over two bytes, and
\* no request is in progress.
C16_Witness ==
    /\ Serial
    /\ phase = "serving"
    /\ restarts = 0
    /\ Len(allocs) = 1
    /\ resp.fresh
    /\ resp.status = StatusOK
    /\ resp.body = "10.8.255.255"
    /\ next = <<10, 9, 0, 0>>


\* C17: after startup recovery, the cursor a request can observe never
\* decreases as a big-endian 32-bit number, also while another request is
\* advancing it byte by byte: no step of a running server lowers the cursor
\* under a request that is between its lookup and its write, where it reads
\* the cursor.
C17_CursorNeverDecreases ==
    [][(/\ phase = "serving"
        /\ phase' = "serving"
        /\ \E q \in Procs : /\ req[q].pc \in {"check", "alloc", "write"}
                            /\ req'[q] = req[q])
          => ipInt(next') >= ipInt(next)]_vars


\* C18: a resolve for a device that already has a record leaves the records
\* and the cursor unchanged: its lookup finds the record, and neither the
\* lookup nor the answer that follows writes a record or moves the cursor,
\* whatever the other requests in progress.
C18_FoundResolveChangesNothing ==
    [][\A p \in Procs :
          (/\ req[p].route = "get"
           /\ \/ req[p].pc = "lookup" /\ req[p].device \in DOMAIN db
              \/ req[p].pc = "check" /\ req[p].found
           /\ req'[p].pc # req[p].pc)
             => /\ db' = db
                /\ next' = next
                /\ allocs' = allocs
                /\ req'[p].pc \in {"check", "idle"}
                /\ req'[p].pc = "check" => req'[p].found]_vars

\* A device stored in this run was resolved again and answered from its
\* record, the cursor staying one past it.
C18_Witness ==
    /\ store0 = NoRecords
    /\ restarts = 0
    /\ Len(allocs) = 1
    /\ resp.route = "get"
    /\ resp.status = StatusOK
    /\ ~resp.fresh
    /\ resp.body = "10.8.0.2"
    /\ db = [k \in {resp.device} |-> <<10, 8, 0, 2>>]
    /\ next = <<10, 8, 0, 3>>


\* The upper and the lower 16 bits of an address read as a big-endian
\* 32-bit number.
hi16(a) == a[1] * ByteMod + a[2]
lo16(a) == a[3] * ByteMod + a[4]

\* C19: for every 4-byte address a, nextIP leaves (a + 1) mod 2^32, read
\* big-endian, and fails on no address: 10.8.0.255 gives 10.8.1.0,
\* 10.255.255.255 gives 11.0.0.0, and 255.255.255.255 wraps to 0.0.0.0.
C19_SuccessorIsPlusOneMod32 ==
    Len(allocs) > 0 =>
        LET a == allocs[Len(allocs)] IN
        /\ next \in [1 .. 4 -> 0 .. ByteMod - 1]
        /\ lo16(next) = (lo16(a) + 1) % (ByteMod * ByteMod)
        /\ hi16(next) = (hi16(a) + (IF lo16(next) = 0 THEN 1 ELSE 0))
                            % (ByteMod * ByteMod)
        /\ a = <<10, 8, 0, 255>> => next = <<10, 8, 1, 0>>
        /\ a = <<10, 255, 255, 255>> => next = <<11, 0, 0, 0>>
        /\ a = <<255, 255, 255, 255>> => next = <<0, 0, 0, 0>>

\* nextIP was called on 255.255.255.254 and again on its result, and left
\* 0.0.0.0.
C19_Witness ==
    /\ allocs = << <<255, 255, 255, 254>>, <<255, 255, 255, 255>> >>
    /\ next = <<0, 0, 0, 0>>

====
